---- MODULE Spec2Model ----
(***************************************************************************)
(* Recipes API (Jovdza012/gin_chapter_2).  The repository holds three      *)
(* builds of the same service, each with its own main():                   *)
(*   "mem"    in-memory slice `recipes`            (src/unnamed/part_000)   *)
(*   "mongo"  MongoDB collection, no auth          (src/unnamed/part_001)   *)
(*   "auth"   MongoDB + session middleware         (src/main.go)            *)
(* A behaviour of Spec picks one build and then serves requests one at a   *)
(* time.  SpecRace serves in-memory requests on concurrent goroutines, as  *)
(* net/http does, with every access to the shared slice a step of its own. *)
(*                                                                         *)
(* Identifiers are numbers: EmptyId is the zero value of the id field (""  *)
(* or the nil ObjectID), 1.. are the values xid.New / NewObjectID hand     *)
(* out, NotHex is a path segment that is not a 24-digit hex string.        *)
(* Times are numbers: ZeroTime is time.Time{}, 1.. are clock readings.     *)
(***************************************************************************)
EXTENDS Integers, Sequences, FiniteSets, TLC

\* ------------------------------------------------------------- bounds
MaxCreates == 2      \* ids handed out by the generator in one behaviour
MaxTime == 1         \* clock readings 1..MaxTime
MaxSessions == 1     \* session tokens the session store issues
NumGoroutines == 2   \* concurrent requests in SpecRace

\* ---------------------------------------------------------- data model
EmptyId == 0
ZeroTime == 0
NotHex == 99

Ids == 1..(MaxCreates + 1)
PathIds == Ids \cup {NotHex}
Tags == {"italian", "dinner", "dessert"}

\* The client-controlled part of a Recipe (name, tags, ingredients, instructions).
Payloads ==
  { [name |-> "Pasta", tags |-> <<"italian", "dinner">>,
     ingredients |-> <<"flour">>, instructions |-> <<"boil">>],
    [name |-> "Salad", tags |-> <<"italian", "italian">>,
     ingredients |-> <<"leaf">>, instructions |-> <<"toss">>] }

Recipe(id, p, at) ==
  [id |-> id, name |-> p.name, tags |-> p.tags, ingredients |-> p.ingredients,
   instructions |-> p.instructions, publishedAt |-> at]

\* A request body that is not JSON of the Recipe shape.
Malformed == [malformed |-> TRUE]

\* The "id" a body may carry: none, or the first id the generator handed out.
BodyIds == {EmptyId, 1}

\* Well-formed bodies: any payload, with or without an id and a publishedAt.
WellFormed ==
  { Recipe(i, p, t) : i \in BodyIds, p \in Payloads, t \in {ZeroTime, MaxTime} }

Bodies == WellFormed \cup {Malformed}

\* c.ShouldBindJSON(&recipe): an error unless the body decodes as a Recipe.
ShouldBindJSON(body) ==
  IF body = Malformed THEN [err |-> TRUE] ELSE [err |-> FALSE, recipe |-> body]

\* primitive.ObjectIDFromHex(id)
ObjectIDFromHex(id) ==
  IF id = NotHex THEN [err |-> TRUE] ELSE [err |-> FALSE, objID |-> id]

\* c.JSON(code, v): a nil slice is encoded as null, any other slice as an array.
JSONObject(r) == [kind |-> "object", items |-> <<r>>]
JSONSlice(isNil, s) == [kind |-> IF isNil THEN "null" ELSE "array", items |-> s]
JSONMessage == [kind |-> "message", items |-> <<>>]
JSONError == [kind |-> "error", items |-> <<>>]
NoBody == [kind |-> "none", items |-> <<>>]

\* What a handler leaves behind: the store, the response, the store accesses made.
Out(store, status, json, calls) ==
  [store |-> store, status |-> status, json |-> json, calls |-> calls]

\* for i, r := range rs { if r.ID == id {...; return} }: the first match, 0 if none
FirstIndex(rs, id) ==
  IF \E i \in DOMAIN rs : rs[i].id = id
    THEN CHOOSE i \in DOMAIN rs :
           rs[i].id = id /\ \A j \in DOMAIN rs : rs[j].id = id => i <= j
    ELSE 0

\* append(rs[:i], rs[i+1:]...)
RemoveAt(rs, i) == SubSeq(rs, 1, i - 1) \o SubSeq(rs, i + 1, Len(rs))

\* for _, t := range r.Tags { if t == tag {...; break} }
HasTag(r, tag) == \E k \in DOMAIN r.tags : r.tags[k] = tag

\* ----------------------------------------------- in-memory handlers
MemNewRecipeHandler(body, id, t, rs) ==
  LET b == ShouldBindJSON(body) IN
  IF b.err THEN Out(rs, 400, JSONError, 0)
  ELSE LET recipe == [b.recipe EXCEPT !.id = id, !.publishedAt = t]
       IN Out(Append(rs, recipe), 200, JSONObject(recipe), 1)

MemListRecipesHandler(rs) == Out(rs, 200, JSONSlice(FALSE, rs), 1)

\* MemUpdateRecipeHandler without the return after the 400 of a failed bind: the
\* zero-valued recipe is stored all the same.
MemUpdateNoReturnOnBindError(id, body, rs) ==
  LET b == ShouldBindJSON(body)
      zero == [id |-> EmptyId, name |-> "", tags |-> <<>>, ingredients |-> <<>>,
               instructions |-> <<>>, publishedAt |-> ZeroTime]
      recipe == IF b.err THEN zero ELSE b.recipe
      i == FirstIndex(rs, id)
  IN IF i # 0
       THEN Out([rs EXCEPT ![i] = recipe], IF b.err THEN 400 ELSE 200, JSONObject(recipe), 1)
       ELSE Out(rs, IF b.err THEN 400 ELSE 404, JSONError, 1)

MemUpdateRecipeHandler(id, body, rs) ==
  LET b == ShouldBindJSON(body) IN
  IF b.err THEN Out(rs, 400, JSONError, 0)
  ELSE LET i == FirstIndex(rs, id) IN
       IF i # 0 THEN Out([rs EXCEPT ![i] = b.recipe], 200, JSONObject(b.recipe), 1)
       ELSE Out(rs, 404, JSONError, 1)

MemDeleteRecipeHandler(id, rs) ==
  LET i == FirstIndex(rs, id) IN
  IF i # 0 THEN Out(RemoveAt(rs, i), 200, JSONMessage, 1)
  ELSE Out(rs, 404, JSONError, 1)

\* var results []Recipe (nil) grown by append, one entry per matching recipe
RECURSIVE MemSearchLoop(_, _, _, _)
MemSearchLoop(rs, tag, i, results) ==
  IF i > Len(rs) THEN results
  ELSE MemSearchLoop(rs, tag, i + 1,
         IF HasTag(rs[i], tag) THEN Append(results, rs[i]) ELSE results)

MemSearchRecipesHandler(tag, rs) ==
  LET results == MemSearchLoop(rs, tag, 1, <<>>)
  IN Out(rs, 200, JSONSlice(results = <<>>, results), 1)

\* ------------------------------------------------- MongoDB handlers
\* `ok` is whether the driver call of the request succeeds (the database is an
\* external collaborator that may fail at any call).

\* collection.UpdateOne(ctx, {_id: objID}, {$set: {name, instructions, ingredients, tags}})
UpdateOne(coll, objID, recipe) ==
  LET i == FirstIndex(coll, objID) IN
  IF i = 0 THEN coll
  ELSE [coll EXCEPT ![i] = [@ EXCEPT !.name = recipe.name,
                                     !.instructions = recipe.instructions,
                                     !.ingredients = recipe.ingredients,
                                     !.tags = recipe.tags]]

\* collection.DeleteOne(ctx, {_id: objID})
DeleteOne(coll, objID) ==
  LET i == FirstIndex(coll, objID) IN
  IF i = 0 THEN [coll |-> coll, DeletedCount |-> 0]
  ELSE [coll |-> RemoveAt(coll, i), DeletedCount |-> 1]

\* collection.Find(ctx, bson.M{}): every document, in the collection's order
FindAll(coll) == coll

\* collection.Find(ctx, bson.D{{"tags", tag}}): the documents whose tags array
\* holds an element equal to tag, each once
FindByTag(coll, tag) == SelectSeq(coll, LAMBDA r : HasTag(r, tag))

MongoNewRecipeHandler(body, id, t, coll, ok) ==
  LET b == ShouldBindJSON(body) IN
  IF b.err THEN Out(coll, 400, JSONError, 0)
  ELSE LET recipe == [b.recipe EXCEPT !.id = id, !.publishedAt = t] IN
       IF ~ok THEN Out(coll, 500, JSONError, 1)
       ELSE Out(Append(coll, recipe), 201, JSONObject(recipe), 1)

MongoListRecipesHandler(coll, ok) ==
  IF ~ok THEN Out(coll, 500, JSONError, 1)
  ELSE Out(coll, 200, JSONSlice(FALSE, FindAll(coll)), 1)

MongoUpdateRecipeHandler(id, body, coll, ok) ==
  LET h == ObjectIDFromHex(id) IN
  IF h.err THEN Out(coll, 400, JSONError, 0)
  ELSE LET b == ShouldBindJSON(body) IN
       IF b.err THEN Out(coll, 400, JSONError, 0)
       ELSE IF ~ok THEN Out(coll, 500, JSONError, 1)
       ELSE Out(UpdateOne(coll, h.objID, b.recipe), 200, JSONMessage, 1)

MongoDeleteRecipeHandler(id, coll, ok) ==
  LET h == ObjectIDFromHex(id) IN
  IF h.err THEN Out(coll, 400, JSONError, 0)
  ELSE IF ~ok THEN Out(coll, 500, JSONError, 1)
  ELSE LET result == DeleteOne(coll, h.objID) IN
       IF result.DeletedCount = 0 THEN Out(coll, 404, JSONError, 1)
       ELSE Out(result.coll, 200, JSONMessage, 1)

\* var results []bson.M (nil), filled by cursor.All; `nilIfEmpty` is whether the
\* driver leaves the slice nil when the cursor holds no document.
MongoSearchRecipesHandler(tag, coll, ok, nilIfEmpty) ==
  IF ~ok THEN Out(coll, 500, JSONError, 1)
  ELSE LET results == FindByTag(coll, tag)
       IN Out(coll, 200, JSONSlice(results = <<>> /\ nilIfEmpty, results), 1)

\* ------------------------------------------------------- state
VARIABLES
  variant,      \* which main() was built: "mem", "mongo" or "auth"
  recipes,      \* part_000: var recipes []Recipe
  collection,   \* part_001, main.go: the documents of the "recipes" collection
  nextId,       \* the next value of xid.New() / primitive.NewObjectID()
  now,          \* the last reading of time.Now()
  resp,         \* the last request served and its response
  sessions,     \* main.go: the session store, token -> session state
  nextToken,    \* the next session token the store issues
  signedOut,    \* tokens invalidated by /signout
  idsReturned,  \* the ids Create has returned, in order
  deletedIds,   \* the ids Delete has answered 200 for
  pc,           \* SpecRace: where each goroutine is in its handler
  local         \* SpecRace: each goroutine's request and locals

vars == <<variant, recipes, collection, nextId, now, resp, sessions, nextToken,
          signedOut, idsReturned, deletedIds, pc, local>>

raceVars == <<pc, local>>
authVars == <<sessions, nextToken, signedOut>>

\* One request and its response.  route is the gin route served; id, tag and bad
\* (the body failed to bind) describe the request; cookie is the session token
\* the request carried (0: none) and valid whether that session was
\* authenticated when the request arrived; ran is whether the recipe handler ran.
Resp(route, id, tag, bad, cookie, valid, ran, out) ==
  [route |-> route, id |-> id, tag |-> tag, bad |-> bad, cookie |-> cookie,
   valid |-> valid, ran |-> ran, status |-> out.status, json |-> out.json,
   calls |-> out.calls]

NoResp ==
  [route |-> "none", id |-> EmptyId, tag |-> "", bad |-> FALSE, cookie |-> 0,
   valid |-> FALSE, ran |-> FALSE, status |-> 0, json |-> NoBody, calls |-> 0]

Tokens == 1..MaxSessions
Goroutines == 1..NumGoroutines

\* A goroutine's request and locals: the handler it runs, the path id, the bound
\* recipe, the slice it read from `recipes`, the loop index, the status written.
Local(op, id, recipe, seen, i, status) ==
  [op |-> op, id |-> id, recipe |-> recipe, seen |-> seen, i |-> i, status |-> status]

NoLocal == Local("none", EmptyId, Malformed, <<>>, 0, 0)

Init ==
  /\ variant \in {"mem", "mongo", "auth"}
  /\ recipes = <<>>
  /\ collection = <<>>
  /\ nextId = 1
  /\ now = 1
  /\ resp = NoResp
  /\ sessions = [s \in Tokens |-> "Unauthenticated"]
  /\ nextToken = 1
  /\ signedOut = {}
  /\ idsReturned = <<>>
  /\ deletedIds = {}
  /\ pc = [g \in 1..NumGoroutines |-> "idle"]
  /\ local = [g \in 1..NumGoroutines |-> NoLocal]

\* ------------------------------------------- part_000: router (lines 232-240)
CanCreate(body) == body = Malformed \/ nextId <= MaxCreates

MemCreate ==
  /\ variant = "mem"
  /\ \E body \in Bodies, t \in now..MaxTime :
       /\ CanCreate(body)
       /\ LET out == MemNewRecipeHandler(body, nextId, t, recipes) IN
          /\ recipes' = out.store
          /\ resp' = Resp("POST /recipes", EmptyId, "", body = Malformed, 0, FALSE, TRUE, out)
          /\ nextId' = IF out.status = 200 THEN nextId + 1 ELSE nextId
          /\ now' = IF out.status = 200 THEN t ELSE now
          /\ idsReturned' = IF out.status = 200
                              THEN Append(idsReturned, out.json.items[1].id)
                              ELSE idsReturned
  /\ UNCHANGED <<variant, collection, deletedIds, authVars, raceVars>>

MemList ==
  /\ variant = "mem"
  /\ LET out == MemListRecipesHandler(recipes) IN
     /\ recipes' = out.store
     /\ resp' = Resp("GET /recipes", EmptyId, "", FALSE, 0, FALSE, TRUE, out)
  /\ UNCHANGED <<variant, collection, nextId, now, idsReturned, deletedIds, authVars, raceVars>>

MemUpdate ==
  /\ variant = "mem"
  /\ \E id \in PathIds, body \in Bodies :
       LET out == MemUpdateRecipeHandler(id, body, recipes) IN
       /\ recipes' = out.store
       /\ resp' = Resp("PUT /recipes/:id", id, "", body = Malformed, 0, FALSE, TRUE, out)
  /\ UNCHANGED <<variant, collection, nextId, now, idsReturned, deletedIds, authVars, raceVars>>

MemDelete ==
  /\ variant = "mem"
  /\ \E id \in PathIds :
       LET out == MemDeleteRecipeHandler(id, recipes) IN
       /\ recipes' = out.store
       /\ resp' = Resp("DELETE /recipes/:id", id, "", FALSE, 0, FALSE, TRUE, out)
       /\ deletedIds' = IF out.status = 200 THEN deletedIds \cup {id} ELSE deletedIds
  /\ UNCHANGED <<variant, collection, nextId, now, idsReturned, authVars, raceVars>>

MemSearch ==
  /\ variant = "mem"
  /\ \E tag \in Tags :
       LET out == MemSearchRecipesHandler(tag, recipes) IN
       /\ recipes' = out.store
       /\ resp' = Resp("GET /recipes/search", EmptyId, tag, FALSE, 0, FALSE, TRUE, out)
  /\ UNCHANGED <<variant, collection, nextId, now, idsReturned, deletedIds, authVars, raceVars>>

\* ------------------------------------------- part_001: router (lines 310-318)
MongoCreate ==
  /\ variant = "mongo"
  /\ \E body \in Bodies, t \in now..MaxTime, ok \in BOOLEAN :
       /\ CanCreate(body)
       /\ LET out == MongoNewRecipeHandler(body, nextId, t, collection, ok) IN
          /\ collection' = out.store
          /\ resp' = Resp("POST /recipes", EmptyId, "", body = Malformed, 0, FALSE, TRUE, out)
          /\ nextId' = IF body # Malformed THEN nextId + 1 ELSE nextId
          /\ now' = IF body # Malformed THEN t ELSE now
          /\ idsReturned' = IF out.status = 201
                              THEN Append(idsReturned, out.json.items[1].id)
                              ELSE idsReturned
  /\ UNCHANGED <<variant, recipes, deletedIds, authVars, raceVars>>

MongoList ==
  /\ variant = "mongo"
  /\ \E ok \in BOOLEAN :
       LET out == MongoListRecipesHandler(collection, ok) IN
       /\ collection' = out.store
       /\ resp' = Resp("GET /recipes", EmptyId, "", FALSE, 0, FALSE, TRUE, out)
  /\ UNCHANGED <<variant, recipes, nextId, now, idsReturned, deletedIds, authVars, raceVars>>

MongoUpdate ==
  /\ variant = "mongo"
  /\ \E id \in PathIds, body \in Bodies, ok \in BOOLEAN :
       LET out == MongoUpdateRecipeHandler(id, body, collection, ok) IN
       /\ collection' = out.store
       /\ resp' = Resp("PUT /recipes/:id", id, "", body = Malformed, 0, FALSE, TRUE, out)
  /\ UNCHANGED <<variant, recipes, nextId, now, idsReturned, deletedIds, authVars, raceVars>>

MongoDelete ==
  /\ variant = "mongo"
  /\ \E id \in PathIds, ok \in BOOLEAN :
       LET out == MongoDeleteRecipeHandler(id, collection, ok) IN
       /\ collection' = out.store
       /\ resp' = Resp("DELETE /recipes/:id", id, "", FALSE, 0, FALSE, TRUE, out)
       /\ deletedIds' = IF out.status = 200 THEN deletedIds \cup {id} ELSE deletedIds
  /\ UNCHANGED <<variant, recipes, nextId, now, idsReturned, authVars, raceVars>>

MongoSearch ==
  /\ variant = "mongo"
  /\ \E tag \in Tags, ok \in BOOLEAN, nilIfEmpty \in BOOLEAN :
       LET out == MongoSearchRecipesHandler(tag, collection, ok, nilIfEmpty) IN
       /\ collection' = out.store
       /\ resp' = Resp("GET /recipes/search", EmptyId, tag, FALSE, 0, FALSE, TRUE, out)
  /\ UNCHANGED <<variant, recipes, nextId, now, idsReturned, deletedIds, authVars, raceVars>>

\* ------------------------------------------------ main.go: the auth build
\* The group with DELETE /recipes/:id registered on the router instead.
AuthorizedWithoutDelete ==
  {"POST /recipes", "GET /recipes", "PUT /recipes/:id", "GET /recipes/:id"}

\* The group with GET /recipes/:id registered on the router instead.
AuthorizedWithoutGetOne ==
  {"POST /recipes", "GET /recipes", "PUT /recipes/:id", "DELETE /recipes/:id"}

\* authorized := router.Group("/"); authorized.Use(authHandler.AuthMiddleware());
\* the routes registered on the group
Authorized ==
  {"POST /recipes", "GET /recipes", "PUT /recipes/:id", "DELETE /recipes/:id",
   "GET /recipes/:id"}

\* the routes whose handler is a method of recipesHandler
RecipeHandlerRoutes ==
  {"POST /recipes", "GET /recipes", "PUT /recipes/:id", "DELETE /recipes/:id",
   "GET /recipes/:id"}

\* the routes whose handler binds a request body
BodyRoutes == {"POST /recipes", "PUT /recipes/:id"}

\* sessions.Sessions("recipes_api", store): the session the request's cookie names
SessionOf(cookie) ==
  IF cookie \in Tokens THEN sessions[cookie] ELSE "Unauthenticated"

\* handlers.AuthMiddleware (package handlers): allow iff a valid session is attached
AuthMiddleware(session) == session = "Authenticated"

\* handlers.RecipesHandler (package handlers): the Store Adapter operations
RecipesHandler(route, id, body, fresh, t, coll) ==
  LET i == FirstIndex(coll, id) IN
  CASE route = "POST /recipes" ->
         IF body = Malformed THEN Out(coll, 400, JSONError, 0)
         ELSE LET recipe == [body EXCEPT !.id = fresh, !.publishedAt = t]
              IN Out(Append(coll, recipe), 200, JSONObject(recipe), 1)
    [] route = "GET /recipes" -> Out(coll, 200, JSONSlice(FALSE, coll), 1)
    [] route = "PUT /recipes/:id" ->
         IF body = Malformed \/ id = NotHex THEN Out(coll, 400, JSONError, 0)
         ELSE IF i = 0 THEN Out(coll, 404, JSONError, 1)
         ELSE Out(UpdateOne(coll, id, body), 200, JSONMessage, 1)
    [] route = "DELETE /recipes/:id" ->
         IF id = NotHex THEN Out(coll, 400, JSONError, 0)
         ELSE IF i = 0 THEN Out(coll, 404, JSONError, 1)
         ELSE Out(RemoveAt(coll, i), 200, JSONMessage, 1)
    [] OTHER ->
         IF i = 0 THEN Out(coll, 404, JSONError, 1)
         ELSE Out(coll, 200, JSONObject(coll[i]), 1)

\* The bodies sent to the auth build: the handler assigns id and publishedAt
\* itself, so the bodies carry neither.
AuthBodies == {Recipe(EmptyId, p, ZeroTime) : p \in Payloads} \cup {Malformed}

Cookies == {0} \cup Tokens

\* gin's dispatch of a recipe route: through the middleware when the route is
\* registered on the authorized group, and then to its handler.
Dispatch(route, cookie, id, body, t) ==
  LET session == SessionOf(cookie)
      allowed == route \in Authorized => AuthMiddleware(session)
      out == IF allowed
               THEN RecipesHandler(route, id, body, nextId, t, collection)
               ELSE Out(collection, 401, JSONError, 0)
      created == allowed /\ route = "POST /recipes" /\ out.status = 200
  IN /\ collection' = out.store
     /\ resp' = Resp(route, id, "", body = Malformed /\ route \in BodyRoutes, cookie,
                     session = "Authenticated", allowed, out)
     /\ nextId' = IF created THEN nextId + 1 ELSE nextId
     /\ now' = IF created THEN t ELSE now
     /\ idsReturned' = IF created
                         THEN Append(idsReturned, out.json.items[1].id)
                         ELSE idsReturned
     /\ deletedIds' = IF allowed /\ route = "DELETE /recipes/:id" /\ out.status = 200
                        THEN deletedIds \cup {id} ELSE deletedIds
     /\ UNCHANGED <<variant, recipes, authVars, raceVars>>

\* POST /recipes; the handler stamps the recipe with the current clock reading
AuthCreate ==
  /\ variant = "auth"
  /\ \E cookie \in Cookies, body \in AuthBodies :
       /\ CanCreate(body)
       /\ Dispatch("POST /recipes", cookie, EmptyId, body, now)

AuthList ==
  /\ variant = "auth"
  /\ \E cookie \in Cookies : Dispatch("GET /recipes", cookie, EmptyId, Malformed, now)

AuthUpdate ==
  /\ variant = "auth"
  /\ \E cookie \in Cookies, id \in PathIds, body \in AuthBodies :
       Dispatch("PUT /recipes/:id", cookie, id, body, now)

AuthDelete ==
  /\ variant = "auth"
  /\ \E cookie \in Cookies, id \in PathIds :
       Dispatch("DELETE /recipes/:id", cookie, id, Malformed, now)

AuthGetOne ==
  /\ variant = "auth"
  /\ \E cookie \in Cookies, id \in PathIds :
       Dispatch("GET /recipes/:id", cookie, id, Malformed, now)

\* router.POST("/signin", authHandler.SignInHandler): credentials that match a
\* stored user establish a session; any others are answered 401.
SignIn ==
  /\ variant = "auth"
  /\ \E match \in BOOLEAN :
       LET issue == match /\ nextToken <= MaxSessions IN
       /\ match => nextToken <= MaxSessions
       /\ sessions' = IF issue THEN [sessions EXCEPT ![nextToken] = "Authenticated"]
                      ELSE sessions
       /\ nextToken' = IF issue THEN nextToken + 1 ELSE nextToken
       /\ resp' = Resp("POST /signin", EmptyId, "", FALSE, IF issue THEN nextToken ELSE 0,
                       FALSE, FALSE,
                       Out(collection, IF issue THEN 200 ELSE 401, JSONMessage, 0))
  /\ UNCHANGED <<variant, recipes, collection, nextId, now, signedOut, idsReturned, deletedIds,
                 raceVars>>

\* router.POST("/signout", authHandler.SignOutHandler): invalidates the session
SignOut ==
  /\ variant = "auth"
  /\ \E cookie \in {0} \cup Tokens :
       /\ sessions' = IF cookie \in Tokens
                        THEN [sessions EXCEPT ![cookie] = "Unauthenticated"]
                        ELSE sessions
       /\ signedOut' = IF SessionOf(cookie) = "Authenticated"
                         THEN signedOut \cup {cookie} ELSE signedOut
       /\ resp' = Resp("POST /signout", EmptyId, "", FALSE, cookie,
                       SessionOf(cookie) = "Authenticated", FALSE,
                       Out(collection, 200, JSONMessage, 0))
  /\ UNCHANGED <<variant, recipes, collection, nextId, now, nextToken, idsReturned, deletedIds,
                 raceVars>>

\* redisStore.NewStore(...): the session store drops a session when it expires
Expire ==
  /\ variant = "auth"
  /\ \E s \in Tokens :
       /\ sessions[s] = "Authenticated"
       /\ sessions' = [sessions EXCEPT ![s] = "Unauthenticated"]
  /\ UNCHANGED <<variant, recipes, collection, nextId, now, resp, nextToken, signedOut,
                 idsReturned, deletedIds, raceVars>>

\* ---------------------- part_000 on net/http: one goroutine per request
\* The handlers of part_000 take no lock: the read of `recipes` and the write
\* back to it are separate steps of a goroutine.

\* NewRecipeHandler lines 84-91: bind, xid.New(), time.Now()
RaceAcceptCreate ==
  \E g \in Goroutines, p \in Payloads, t \in now..MaxTime :
    /\ pc[g] = "idle"
    /\ nextId <= MaxCreates
    /\ local' = [local EXCEPT ![g] = Local("create", EmptyId, Recipe(nextId, p, t), <<>>, 0, 0)]
    /\ pc' = [pc EXCEPT ![g] = "load"]
    /\ nextId' = nextId + 1
    /\ now' = t
    /\ UNCHANGED <<variant, recipes, collection, resp, authVars, idsReturned, deletedIds>>

\* DeleteRecipeHandler line 183
RaceAcceptDelete ==
  \E g \in Goroutines, id \in 1..MaxCreates :
    /\ pc[g] = "idle"
    /\ local' = [local EXCEPT ![g] = Local("delete", id, Malformed, <<>>, 0, 0)]
    /\ pc' = [pc EXCEPT ![g] = "load"]
    /\ UNCHANGED <<variant, recipes, collection, nextId, now, resp, authVars, idsReturned, deletedIds>>

\* line 92, the operand of append(recipes, recipe); line 185, range recipes
RaceLoad ==
  \E g \in Goroutines :
    /\ pc[g] = "load"
    /\ LET i == FirstIndex(recipes, local[g].id)
           miss == local[g].op = "delete" /\ i = 0
       IN /\ local' = [local EXCEPT ![g].seen = recipes, ![g].i = i,
                                    ![g].status = IF miss THEN 404 ELSE 0]
          /\ pc' = [pc EXCEPT ![g] = IF miss THEN "done" ELSE "store"]
    /\ UNCHANGED <<variant, recipes, collection, nextId, now, resp, authVars, idsReturned, deletedIds>>

\* line 92, recipes = append(...), then c.JSON(200); line 187, recipes =
\* append(recipes[:i], recipes[i+1:]...), which panics when the slice has
\* shrunk below i (gin's Recovery answers 500)
RaceStore ==
  \E g \in Goroutines :
    /\ pc[g] = "store"
    /\ LET l == local[g]
           panics == l.op = "delete" /\ l.i > Len(recipes)
       IN /\ recipes' = IF l.op = "create" THEN Append(l.seen, l.recipe)
                        ELSE IF panics THEN recipes
                        ELSE RemoveAt(recipes, l.i)
          /\ local' = [local EXCEPT ![g].status = IF panics THEN 500 ELSE 200]
    /\ pc' = [pc EXCEPT ![g] = "done"]
    /\ UNCHANGED <<variant, collection, nextId, now, resp, authVars, idsReturned, deletedIds>>

InitMem == Init /\ variant = "mem"
InitServed == Init /\ variant \in {"mem", "mongo"}
InitAuth == Init /\ variant = "auth"

Next ==
  \/ MemCreate \/ MemList \/ MemUpdate \/ MemDelete \/ MemSearch
  \/ MongoCreate \/ MongoList \/ MongoUpdate \/ MongoDelete \/ MongoSearch

\* The builds whose handlers are in the source, in-memory and MongoDB, serving
\* one request at a time.
Spec == InitServed /\ [][Next]_vars

NextAuth ==
  \/ AuthCreate \/ AuthList \/ AuthUpdate \/ AuthDelete \/ AuthGetOne
  \/ SignIn \/ SignOut \/ Expire

\* The build of main.go.
SpecAuth == InitAuth /\ [][NextAuth]_vars

NextRace == RaceAcceptCreate \/ RaceAcceptDelete \/ RaceLoad \/ RaceStore

\* The in-memory build serving NumGoroutines requests concurrently.
SpecRace == InitMem /\ [][NextRace]_vars

\* ------------------------------------------------------------ claims
\* The recipes the running build stores.
Stored == IF variant = "mem" THEN recipes ELSE collection

\* The recipe routes the claims call protected.
ProtectedRoutes ==
  {"POST /recipes", "GET /recipes", "PUT /recipes/:id", "DELETE /recipes/:id",
   "GET /recipes/:id"}

Occurrences(seq, id) == Cardinality({k \in DOMAIN seq : seq[k].id = id})
Matching(seq, tag) == SelectSeq(seq, LAMBDA r : \E k \in DOMAIN r.tags : r.tags[k] = tag)

\* C1: in the auth build a request to a recipe route that carries no valid
\* session is answered 401, its handler does not run, and it makes no store
\* call and leaves the stored recipes as they were.
C1_NoSessionNoStore ==
  [][(resp'.route \in ProtectedRoutes /\ ~resp'.valid)
       => /\ resp'.status = 401
          /\ ~resp'.ran
          /\ resp'.calls = 0
          /\ collection' = collection]_vars

\* C1 witness: a DELETE of a stored recipe, sent without a valid session, was
\* answered 401.
C1_Witness ==
  /\ variant = "auth"
  /\ resp.route = "DELETE /recipes/:id"
  /\ ~resp.valid
  /\ resp.status = 401
  /\ FirstIndex(collection, resp.id) # 0

\* C2: no two stored recipes share an id, and every id Create returned is
\* non-empty and different from every id it returned before.
C2_IdsUnique ==
  /\ \A i, j \in DOMAIN Stored : i # j => Stored[i].id # Stored[j].id
  /\ \A k \in DOMAIN idsReturned :
       /\ idsReturned[k] # EmptyId
       /\ \A m \in 1..(k - 1) : idsReturned[m] # idsReturned[k]

\* C3: a successful Update of the record identified by id leaves that record's
\* id and publishedAt as they were.
C3_UpdateKeepsIdAndPublishedAt ==
  [][(resp'.route = "PUT /recipes/:id" /\ resp'.status = 200
        /\ FirstIndex(Stored, resp'.id) # 0)
       => LET i == FirstIndex(Stored, resp'.id) IN
          /\ Len(Stored') = Len(Stored)
          /\ Stored'[i].id = Stored[i].id
          /\ Stored'[i].publishedAt = Stored[i].publishedAt]_vars

\* C4: an Update with a well-formed id and body whose id matches no stored
\* recipe is answered 404 (the store not failing) and leaves the stored recipes
\* as they were.
C4_UpdateMissingIsNotFound ==
  [][(resp'.route = "PUT /recipes/:id" /\ ~resp'.bad /\ resp'.id # NotHex
        /\ resp'.status # 500 /\ FirstIndex(Stored, resp'.id) = 0)
       => (resp'.status = 404 /\ Stored' = Stored)]_vars

\* C5: a Delete of an id that matches no stored recipe is answered 404; a Delete
\* of a stored id removes exactly one record and is answered 200; an id once
\* deleted is never stored again, and a later Delete of it is answered 404.
C5_DeleteThenNotFound ==
  [][(resp'.route = "DELETE /recipes/:id" /\ resp'.id # NotHex /\ resp'.status # 500)
       => /\ IF FirstIndex(Stored, resp'.id) = 0
               THEN resp'.status = 404 /\ Stored' = Stored
               ELSE resp'.status = 200 /\ Len(Stored') = Len(Stored) - 1
          /\ resp'.id \in deletedIds => resp'.status = 404
          /\ \A k \in DOMAIN Stored' : Stored'[k].id \notin deletedIds']_vars

\* C6 (on the in-memory build): a search answered 200 carries a JSON array
\* holding exactly the stored recipes with a tag equal to the query, each once,
\* in particular the empty array when none matches.
C6_SearchReturnsMatches ==
  (variant = "mem" /\ resp.route = "GET /recipes/search" /\ resp.status = 200)
    => /\ resp.json.kind = "array"
       /\ resp.json.items = Matching(Stored, resp.tag)

\* C7: when every concurrent request is a Create and all have been answered
\* 200, every one of the created records is in the collection.
C7_NoLostCreate ==
  (\A g \in Goroutines : pc[g] = "done" /\ local[g].op = "create" /\ local[g].status = 200)
    => \A g \in Goroutines : Occurrences(recipes, local[g].recipe.id) = 1

\* C8: a List answered 200 holds exactly one entry with the id Create returned
\* for each recipe created and not since deleted.
C8_ListedExactlyOnce ==
  (resp.route = "GET /recipes" /\ resp.status = 200)
    => \A k \in DOMAIN idsReturned :
         idsReturned[k] \notin deletedIds
           => Occurrences(resp.json.items, idsReturned[k]) = 1

\* C9: a session is Unauthenticated or Authenticated; it becomes Authenticated
\* only by a sign-in answered 200 that issues it, and Unauthenticated again only
\* by a sign-out carrying it or by expiry; and a request to a protected route
\* that carries a signed-out session is answered 401.
C9_SessionLifecycle ==
  [][/\ \A s \in Tokens :
          /\ sessions'[s] \in {"Unauthenticated", "Authenticated"}
          /\ (sessions[s] = "Unauthenticated" /\ sessions'[s] = "Authenticated")
               => (resp'.route = "POST /signin" /\ resp'.status = 200 /\ resp'.cookie = s)
          /\ (sessions[s] = "Authenticated" /\ sessions'[s] = "Unauthenticated")
               => \/ resp'.route = "POST /signout" /\ resp'.cookie = s
                  \/ resp' = resp /\ collection' = collection
     /\ (resp'.route \in ProtectedRoutes /\ resp'.cookie \in signedOut')
          => resp'.status = 401]_vars

\* C9 witness: a request to a protected route carrying a session that had signed
\* in and out was answered 401.
C9_Witness ==
  /\ variant = "auth"
  /\ resp.route \in ProtectedRoutes
  /\ resp.cookie \in signedOut
  /\ resp.status = 401
  /\ resp.cookie < nextToken

\* C10: a Create or Update whose body fails to bind is answered 400, makes no
\* store access and leaves the stored recipes as they were.
C10_MalformedBodyRejected ==
  [][(resp'.route \in BodyRoutes /\ resp'.bad)
       => /\ resp'.status = 400
          /\ resp'.calls = 0
          /\ Stored' = Stored]_vars

\* C10 witness: an Update of a stored recipe with a malformed body was answered
\* 400.
C10_Witness ==
  /\ resp.route = "PUT /recipes/:id"
  /\ resp.bad
  /\ resp.status = 400
  /\ FirstIndex(Stored, resp.id) # 0

====
